---------------------------- MODULE Spec2Model ----------------------------
(***************************************************************************)
(* Model of the tool-dispatch and query-execution pipeline of the MySQL    *)
(* MCP server (src/src/index.ts): the CallTool dispatcher, the four tool   *)
(* handlers, the query classifier, the result shaping and the connection   *)
(* pool the handlers run against.                                          *)
(*                                                                         *)
(* JavaScript runs one callback at a time, so an action is the code that   *)
(* runs between two suspension points (await) of one invocation.  Strings  *)
(* whose characters the code inspects (the query text) are sequences of    *)
(* one-character strings.                                                  *)
(***************************************************************************)
EXTENDS Integers, Sequences, FiniteSets, TLC

(***************************************************************************)
(* Bounds of the model.                                                    *)
(***************************************************************************)
\* number of tool invocations the transport delivers
MaxCalls == 2
\* largest configured pool size (MYSQL_CONNECTION_LIMIT ranges over 1..this)
MaxConnectionLimit == 2
\* largest number of rows a statement returns
MaxRows == 1
\* largest run of whitespace around a query text given to the classifier
MaxPad == 1

Calls == 1..MaxCalls

\* Run(Step, v): what Step makes of the value v, with v computed once.  The
\* steps of a code path are applied one after another, each to the record
\* the one before left.
Run(Step(_), v) == CHOOSE r \in {Step(x) : x \in {v}} : TRUE

(***************************************************************************)
(* Characters and strings.                                                 *)
(***************************************************************************)
LowerChars == <<"a","b","c","d","e","f","g","h","i","j","k","l","m",
                "n","o","p","q","r","s","t","u","v","w","x","y","z">>
UpperChars == <<"A","B","C","D","E","F","G","H","I","J","K","L","M",
                "N","O","P","Q","R","S","T","U","V","W","X","Y","Z">>
WhiteSpace == {" ", "\t", "\n"}

\* String.prototype.toUpperCase, one character
ToUpperChar(ch) ==
    IF \E k \in 1..Len(LowerChars) : LowerChars[k] = ch
    THEN UpperChars[CHOOSE k \in 1..Len(LowerChars) : LowerChars[k] = ch]
    ELSE ch

\* String.prototype.toUpperCase
ToUpperCase(s) == [k \in 1..Len(s) |-> ToUpperChar(s[k])]

\* String.prototype.trim: drop the whitespace at both ends
RECURSIVE TrimStart(_)
TrimStart(s) ==
    IF s # <<>> /\ Head(s) \in WhiteSpace THEN TrimStart(Tail(s)) ELSE s

RECURSIVE TrimEnd(_)
TrimEnd(s) ==
    IF s # <<>> /\ s[Len(s)] \in WhiteSpace
    THEN TrimEnd(SubSeq(s, 1, Len(s) - 1))
    ELSE s

Trim(s) == TrimEnd(TrimStart(s))

\* String.prototype.startsWith
StartsWith(s, prefix) ==
    /\ Len(prefix) <= Len(s)
    /\ SubSeq(s, 1, Len(prefix)) = prefix

(***************************************************************************)
(* The keywords of the classifier, as character sequences.                 *)
(***************************************************************************)
KwSelect   == <<"S","E","L","E","C","T">>
KwInsert   == <<"I","N","S","E","R","T">>
KwUpdate   == <<"U","P","D","A","T","E">>
KwDelete   == <<"D","E","L","E","T","E">>
KwCreate   == <<"C","R","E","A","T","E">>
KwAlter    == <<"A","L","T","E","R">>
KwDrop     == <<"D","R","O","P">>
KwTruncate == <<"T","R","U","N","C","A","T","E">>
KwReplace  == <<"R","E","P","L","A","C","E">>
KwShow     == <<"S","H","O","W">>
KwDescribe == <<"D","E","S","C","R","I","B","E">>
KwDesc     == <<"D","E","S","C">>

\* detectQueryType with the trim left out
detectQueryTypeNoTrim(query) ==
    LET Match(normalized) ==
        IF StartsWith(normalized, KwSelect) THEN "SELECT"
        ELSE IF StartsWith(normalized, KwInsert) THEN "INSERT"
        ELSE IF StartsWith(normalized, KwUpdate) THEN "UPDATE"
        ELSE IF StartsWith(normalized, KwDelete) THEN "DELETE"
        ELSE IF StartsWith(normalized, KwCreate) THEN "CREATE"
        ELSE IF StartsWith(normalized, KwAlter) THEN "ALTER"
        ELSE IF StartsWith(normalized, KwDrop) THEN "DROP"
        ELSE IF StartsWith(normalized, KwTruncate) THEN "TRUNCATE"
        ELSE IF StartsWith(normalized, KwReplace) THEN "REPLACE"
        ELSE IF StartsWith(normalized, KwShow) THEN "SHOW"
        ELSE IF StartsWith(normalized, KwDescribe) \/ StartsWith(normalized, KwDesc)
             THEN "DESCRIBE"
        ELSE "OTHER"
    IN  Run(Match, ToUpperCase(query))

\* detectQueryType(query): the coarse verb of a query text
detectQueryType(query) ==
    LET Match(normalized) ==
        IF StartsWith(normalized, KwSelect) THEN "SELECT"
        ELSE IF StartsWith(normalized, KwInsert) THEN "INSERT"
        ELSE IF StartsWith(normalized, KwUpdate) THEN "UPDATE"
        ELSE IF StartsWith(normalized, KwDelete) THEN "DELETE"
        ELSE IF StartsWith(normalized, KwCreate) THEN "CREATE"
        ELSE IF StartsWith(normalized, KwAlter) THEN "ALTER"
        ELSE IF StartsWith(normalized, KwDrop) THEN "DROP"
        ELSE IF StartsWith(normalized, KwTruncate) THEN "TRUNCATE"
        ELSE IF StartsWith(normalized, KwReplace) THEN "REPLACE"
        ELSE IF StartsWith(normalized, KwShow) THEN "SHOW"
        ELSE IF StartsWith(normalized, KwDescribe) \/ StartsWith(normalized, KwDesc)
             THEN "DESCRIBE"
        ELSE "OTHER"
    IN  Run(Match, ToUpperCase(Trim(query)))

(***************************************************************************)
(* State.                                                                  *)
(*   config    the settings object read at start-up                        *)
(*   pool      the connection pool: connections in use and the FIFO queue  *)
(*             of invocations waiting for one                              *)
(*   call      one record per tool invocation: where its callback stands,  *)
(*             its arguments, the connection it holds, its span, and what  *)
(*             it has sent to the recorder                                 *)
(*   proc      the process: how far main() has come, the signal handlers   *)
(*             that run, whether and how the process has exited            *)
(*   clsQuery, clsVerb   a query text given to the classifier on its own,  *)
(*             and the verb it returned                                    *)
(***************************************************************************)
VARIABLES config, pool, call, proc, clsQuery, clsVerb

vars == <<config, pool, call, proc, clsQuery, clsVerb>>

RegisteredTools == {"onboarding", "list_tables", "get_table_schema", "execute_query"}
UnknownTools == {"drop_database"}
ToolNames == RegisteredTools \cup UnknownTools

AttrNames == {"query.type", "success", "query.rows", "query.affected_rows", "error"}

\* absent values
NoResult == [none |-> TRUE]
NoResponse == [none |-> TRUE]

\* error messages
UnknownToolMessage(name) == <<"Unknown tool: ", name>>
ArgumentTypeError == <<"TypeError: Cannot read properties of undefined">>
SerializeTypeError == <<"TypeError: Do not know how to serialize a BigInt">>
StatementErrors == {<<"ER_PARSE_ERROR">>}
ConnectErrors == {<<"ECONNREFUSED">>}
PoolClosedError == <<"Pool is closed.">>

\* the property name under which SHOW TABLES returns a table name
TableKey == "Tables_in_shop"

(***************************************************************************)
(* What the database driver can answer.  A row carries a flag telling      *)
(* whether it holds a value JSON.stringify refuses (a BigInt).             *)
(***************************************************************************)
Row(k, big) == [id |-> k, big |-> big]
RowsOf(n) == [k \in 1..n |-> Row(k, FALSE)]
BigRowsOf(n) == [k \in 1..n |-> Row(k, k = n)]
TableRowsOf(n) == [k \in 1..n |-> [Tables_in_shop |-> <<"table", k>>]]
FieldPackets(n) == [k \in 1..n |-> [name |-> <<"col", k>>, type |-> 3, table |-> "x"]]

\* query texts the invocations of the pipeline carry
SelectOne == <<"S","E","L","E","C","T"," ","1">>
DeleteFromX == <<" ","d","e","l","e","t","e"," ","f","r","o","m"," ","x">>
QueryInputs == {SelectOne, DeleteFromX}

\* outputs of connection.query(text): row sets and receipts
RowSetOutputs ==
    {[kind |-> "rows", rows |-> RowsOf(n), fields |-> FieldPackets(1)] : n \in 0..MaxRows}
      \cup {[kind |-> "rows", rows |-> BigRowsOf(MaxRows), fields |-> FieldPackets(1)]}
ReceiptOutputs ==
    {[kind |-> "receipt", affectedRows |-> 0, insertId |-> 0, warningStatus |-> 0,
      info |-> ""],
     [kind |-> "receipt", affectedRows |-> MaxRows, insertId |-> 5, warningStatus |-> 2,
      info |-> "Rows matched"]}
\* the database answers a SELECT with a row set, any other statement with a receipt
QueryOutputs(query) ==
    IF query = SelectOne THEN RowSetOutputs ELSE ReceiptOutputs

ShowTablesOutputs == {[kind |-> "rows", rows |-> TableRowsOf(n)] : n \in {0, MaxRows}}
DescribeOutputs == {[kind |-> "rows", rows |-> RowsOf(MaxRows)]}
\* the table has one index row fewer than column rows
ShowIndexesOutputs == {[kind |-> "rows", rows |-> RowsOf(MaxRows - 1)]}
ShowCreateOutputs ==
    {[kind |-> "rows", rows |-> <<>>],
     [kind |-> "rows", rows |-> <<[CreateTable |-> "CREATE TABLE t (id int)"]>>]}

(***************************************************************************)
(* The record of one invocation.                                           *)
(***************************************************************************)
IdleCall ==
    [pc |-> "idle", tool |-> "", argsKind |-> "undefined", query |-> <<>>,
     table |-> "", stmtNo |-> 0, pendingError |-> <<>>,
     conn |-> FALSE, acquired |-> 0, released |-> 0,
     span |-> "none", spanEnds |-> 0, attrs |-> [a \in AttrNames |-> <<>>],
     lateAttrs |-> 0,
     log |-> <<>>, toolCalls |-> <<>>, handlerRuns |-> 0, catches |-> 0,
     durations |-> <<>>, errors |-> <<>>, rowsRec |-> <<>>, bytesRec |-> <<>>,
     thrown |-> <<>>, failures |-> <<>>, waited |-> FALSE,
     stmts |-> <<>>, columns |-> <<>>, indexes |-> <<>>,
     raw |-> NoResult, result |-> NoResult, response |-> NoResponse]

Log(c0, event) ==
    LET Do(c) ==
        [c EXCEPT !.log = Append(@, event)]
    IN  Run(Do, c0)

(***************************************************************************)
(* The recorder (telemetry.js): counters and spans.                        *)
(***************************************************************************)
recordToolCall(c0, name) ==
    LET Do(c) ==
        Log([c EXCEPT !.toolCalls = Append(@, name)], "toolCall")
    IN  Run(Do, c0)

\* startSpan: a span, or none when telemetry is disabled
startSpan(c0, name) ==
    LET Do(c) ==
        IF config.telemetryEnabled
        THEN Log([c EXCEPT !.span = "open"], "spanOpen")
        ELSE c
    IN  Run(Do, c0)

\* if (span) span.setAttribute(key, value)
setAttribute(c0, key, value) ==
    LET Do(c) ==
        IF c.span = "none" THEN c
        ELSE [c EXCEPT !.attrs[key] = value,
                       !.lateAttrs = IF c.span = "ended" THEN @ + 1 ELSE @]
    IN  Run(Do, c0)

\* if (span) span.end()
spanEnd(c0) ==
    LET Do(c) ==
        IF c.span = "none" THEN c
        ELSE Log([c EXCEPT !.span = "ended", !.spanEnds = @ + 1], "spanEnd")
    IN  Run(Do, c0)

recordQueryDuration(c0, label) ==
    LET Do(c) ==
        [c EXCEPT !.durations = Append(@, [label |-> label, holding |-> c.conn])]
    IN  Run(Do, c0)

recordQueryError(c0, tool, message) ==
    LET Do(c) ==
        [c EXCEPT !.errors = Append(@, [tool |-> tool, message |-> message,
                                         holding |-> c.conn])]
    IN  Run(Do, c0)

recordQueryRows(c0, n, verb, tool) ==
    LET Do(c) ==
        [c EXCEPT !.rowsRec = Append(@, [n |-> n, verb |-> verb, tool |-> tool])]
    IN  Run(Do, c0)

recordQueryBytes(c0, bytes, verb, tool) ==
    LET Do(c) ==
        [c EXCEPT !.bytesRec = Append(@, [bytes |-> bytes, verb |-> verb, tool |-> tool])]
    IN  Run(Do, c0)

(***************************************************************************)
(* Serialisation.                                                          *)
(***************************************************************************)
\* whether JSON.stringify(data) returns: no row of the data holds a BigInt
Serializable(data) ==
    \A f \in DOMAIN data \cap {"rows", "columns", "indexes"} :
        \A k \in 1..Len(data[f]) : ~data[f][k].big

\* JSON.stringify(data): the text of the data
JsonStringify(data) == [json |-> data]

\* Buffer.byteLength of the text: brackets, and a share for every row
ByteLength(data) ==
    LET fs == DOMAIN data \cap {"rows", "columns", "indexes", "tables"}
        RECURSIVE Sum(_)
        Sum(S) == IF S = {} THEN 0
                  ELSE LET f == CHOOSE x \in S : TRUE
                       IN 8 * Len(data[f]) + Sum(S \ {f})
    IN 2 + 4 * Cardinality(DOMAIN data) + Sum(fs)

\* calculatePayloadSize without its try/catch
calculatePayloadSizeNoCatch(data) == ByteLength(data)

\* calculatePayloadSize(data): the byte length, 0 when serialisation throws
calculatePayloadSize(data) ==
    IF Serializable(data) THEN ByteLength(data) ELSE 0

(***************************************************************************)
(* The dispatcher: the CallTool request handler.                           *)
(***************************************************************************)
\* the catch block that rethrows instead of answering
CatchBlockRethrows(c0, message) ==
    LET Do(c) ==
        LET c1 == Log([c EXCEPT !.catches = @ + 1], "caught")
            c2 == Log(recordQueryDuration(c1, <<c.tool>>), "durRec")
            c3 == Log(recordQueryError(c2, c.tool, message), "errRec")
            c4 == spanEnd(setAttribute(setAttribute(c3, "success", <<FALSE>>), "error", message))
        IN  [c4 EXCEPT !.pc = "rejected"]
    IN  Run(Do, c0)

\* the catch block without recordQueryError
CatchBlockRecordsNoError(c0, message) ==
    LET Do(c) ==
        LET c1 == Log([c EXCEPT !.catches = @ + 1], "caught")
            c2 == Log(recordQueryDuration(c1, <<c.tool>>), "durRec")
            c4 == setAttribute(c2, "success", <<FALSE>>)
            c5 == setAttribute(c4, "error", message)
            c6 == spanEnd(c5)
        IN  Log([c6 EXCEPT !.pc = "responded",
                           !.response =
                               [content |-> <<[type |-> "text",
                                               text |-> JsonStringify([error |-> message])]>>,
                                isError |-> TRUE]],
                "respond")
    IN  Run(Do, c0)

\* catch (error) { ... return { content, isError: true } }
CatchBlock(c0, message) ==
    LET Do(c) ==
        LET c1 == Log([c EXCEPT !.catches = @ + 1], "caught")
            c2 == Log(recordQueryDuration(c1, <<c.tool>>), "durRec")
            c3 == Log(recordQueryError(c2, c.tool, message), "errRec")
            c4 == setAttribute(c3, "success", <<FALSE>>)
            c5 == setAttribute(c4, "error", message)
            c6 == spanEnd(c5)
        IN  Log([c6 EXCEPT !.pc = "responded",
                           !.response =
                               [content |-> <<[type |-> "text",
                                               text |-> JsonStringify([error |-> message])]>>,
                                isError |-> TRUE]],
                "respond")
    IN  Run(Do, c0)

\* an exception reaches the try block of the dispatcher
Throw(c0, message) ==
    LET Do(c) ==
        CatchBlock([c EXCEPT !.thrown = Append(@, message)], message)
    IN  Run(Do, c0)

\* the rest of the try block once the handler has returned: record the
\* duration, annotate and end the span, serialise the result
AfterHandler(c0) ==
    LET Do(c) ==
        LET result == c.result
            c1 == Log(recordQueryDuration(c, <<c.tool>>), "durRec")
            c2 == setAttribute(c1, "success", <<TRUE>>)
            c3 == IF c.tool = "execute_query"
                  THEN IF "rowCount" \in DOMAIN result
                       THEN setAttribute(c2, "query.rows", <<result.rowCount>>)
                       ELSE IF "affectedRows" \in DOMAIN result
                            THEN setAttribute(c2, "query.affected_rows", <<result.affectedRows>>)
                            ELSE c2
                  ELSE c2
            c4 == spanEnd(c3)
        IN  IF Serializable(result)
            THEN Log([c4 EXCEPT !.pc = "responded",
                                !.response =
                                    [content |-> <<[type |-> "text",
                                                    text |-> JsonStringify(result)]>>]],
                     "respond")
            ELSE Throw(c4, SerializeTypeError)
    IN  Run(Do, c0)

\* the handler returns its data to the dispatcher
HandlerReturns(c0, resultData) ==
    LET Do(c) ==
        AfterHandler(Log([c EXCEPT !.result = resultData], "handlerReturn"))
    IN  Run(Do, c0)

\* the dispatcher calls a handler
HandlerStarts(c0) ==
    LET Do(c) ==
        Log([c EXCEPT !.handlerRuns = @ + 1], "handlerStart")
    IN  Run(Do, c0)

(***************************************************************************)
(* The handlers.                                                           *)
(***************************************************************************)
\* handleOnboarding: the static guide
OnboardingGuide == [guide |-> "Welcome to the MySQL MCP Server!"]

\* connection.release(), and the release pool.query does when its statement ends
release(c0) ==
    LET Do(c) ==
        [c EXCEPT !.conn = FALSE, !.released = @ + 1]
    IN  Run(Do, c0)

\* a handleListTables that leaves out the bytes counter
ListTablesFinishNoBytes(c0, rows) ==
    LET Do(c) ==
        LET tables == [k \in 1..Len(rows) |-> rows[k][TableKey]]
            resultData == [database |-> config.database, tables |-> tables]
            c1 == recordQueryRows(c, Len(tables), "SHOW", "list_tables")
            c3 == recordQueryDuration(c1, <<"list_tables", "SHOW">>)
        IN  HandlerReturns(c3, resultData)
    IN  Run(Do, c0)

\* handleListTables after SHOW TABLES has answered
ListTablesFinish(c0, rows) ==
    LET Do(c) ==
        LET tables == [k \in 1..Len(rows) |-> rows[k][TableKey]]
            resultData == [database |-> config.database, tables |-> tables]
            payloadSize == calculatePayloadSize(resultData)
            c1 == recordQueryRows(c, Len(tables), "SHOW", "list_tables")
            c2 == recordQueryBytes(c1, payloadSize, "SHOW", "list_tables")
            c3 == recordQueryDuration(c2, <<"list_tables", "SHOW">>)
        IN  HandlerReturns(c3, resultData)
    IN  Run(Do, c0)

\* handleGetTableSchema after its third statement has answered or failed
GetTableSchemaFinish(c0, createTableInfo) ==
    LET Do(c) ==
        LET resultData == [database |-> config.database, table |-> c.table,
                           columns |-> c.columns, indexes |-> c.indexes,
                           createTableStatement |-> createTableInfo]
            payloadSize == calculatePayloadSize(resultData)
            totalRows == Len(c.columns) + Len(c.indexes)
            c1 == recordQueryRows(c, totalRows, "DESCRIBE", "get_table_schema")
            c2 == recordQueryBytes(c1, payloadSize, "DESCRIBE", "get_table_schema")
            c3 == recordQueryDuration(c2, <<"get_table_schema", "DESCRIBE">>)
        IN  HandlerReturns(c3, resultData)
    IN  Run(Do, c0)

\* (createTable as any[])[0]?.['Create Table'] || ''
CreateTableInfo(rows) == IF rows = <<>> THEN "" ELSE rows[1].CreateTable

\* a row-set result that counts the field packets instead of the rows
RowSetResultCountsFields(results, fields) ==
    [rowCount |-> Len(fields),
     rows |-> results,
     fields |-> [k \in 1..Len(fields) |-> [name |-> fields[k].name, type |-> fields[k].type]]]

\* the result of a row set: rowCount, rows, fields
RowSetResult(results, fields) ==
    [rowCount |-> Len(results),
     rows |-> results,
     fields |-> [k \in 1..Len(fields) |-> [name |-> fields[k].name, type |-> fields[k].type]]]

\* the result of a receipt: affectedRows, insertId, warningCount
MutationResult(resultPacket) ==
    [affectedRows |-> resultPacket.affectedRows,
     insertId |-> resultPacket.insertId,
     warningCount |-> resultPacket.warningStatus]

\* a handleExecuteQuery that classifies the query text without trimming it
ExecuteQueryShapeUntrimmedVerb(c0, out) ==
    LET Do(c) ==
        LET Shape(queryType) ==
            LET label == <<"execute_query", queryType>>
            IN  IF out.kind = "rows"
                THEN LET resultData == RowSetResult(out.rows, out.fields)
                         payloadSize == calculatePayloadSize([rows |-> out.rows])
                         c1 == recordQueryRows(c, Len(out.rows), queryType, "execute_query")
                         c2 == recordQueryBytes(c1, payloadSize, queryType, "execute_query")
                         c3 == recordQueryDuration(c2, label)
                     IN  [c3 EXCEPT !.result = resultData]
                ELSE LET resultData == MutationResult(out)
                         payloadSize == calculatePayloadSize(resultData)
                         c1 == recordQueryRows(c, out.affectedRows, queryType, "execute_query")
                         c2 == recordQueryBytes(c1, payloadSize, queryType, "execute_query")
                         c3 == recordQueryDuration(c2, label)
                     IN  [c3 EXCEPT !.result = resultData]
        IN  Run(Shape, detectQueryTypeNoTrim(c.query))
    IN  Run(Do, c0)

\* the try block of handleExecuteQuery once the statement has answered
ExecuteQueryShape(c0, out) ==
    LET Do(c) ==
        LET Shape(queryType) ==
            LET label == <<"execute_query", queryType>>
            IN  IF out.kind = "rows"
                THEN LET resultData == RowSetResult(out.rows, out.fields)
                         payloadSize == calculatePayloadSize([rows |-> out.rows])
                         c1 == recordQueryRows(c, Len(out.rows), queryType, "execute_query")
                         c2 == recordQueryBytes(c1, payloadSize, queryType, "execute_query")
                         c3 == recordQueryDuration(c2, label)
                     IN  [c3 EXCEPT !.result = resultData]
                ELSE LET resultData == MutationResult(out)
                         payloadSize == calculatePayloadSize(resultData)
                         c1 == recordQueryRows(c, out.affectedRows, queryType, "execute_query")
                         c2 == recordQueryBytes(c1, payloadSize, queryType, "execute_query")
                         c3 == recordQueryDuration(c2, label)
                     IN  [c3 EXCEPT !.result = resultData]
        IN  Run(Shape, detectQueryType(c.query))
    IN  Run(Do, c0)

\* return resultData, out of the try block and through the finally block
ExecuteQueryReturns(c0) ==
    LET Do(c) ==
        HandlerReturns(c, c.result)
    IN  Run(Do, c0)

\* the finally block that releases only when the try block threw nothing
ExecuteQueryFinallyOnSuccessOnly(c0, threw) ==
    LET Do(c) ==
        IF threw THEN c ELSE release(c)
    IN  Run(Do, c0)

\* a finally block after a try block that has released already
ExecuteQueryFinallyReleasesAgain(c0, threw) ==
    LET Do(c) ==
        IF threw THEN release(c) ELSE release(release(c))
    IN  Run(Do, c0)

\* finally { connection.release() }
ExecuteQueryFinally(c0, threw) ==
    LET Do(c) ==
        release(c)
    IN  Run(Do, c0)

(***************************************************************************)
(* The connection pool (mysql.createPool with waitForConnections: true and *)
(* queueLimit: 0): at most connectionLimit connections, further requests   *)
(* wait in a FIFO queue of unbounded length.                               *)
(***************************************************************************)
\* whether a request is served at once
PoolHasRoom(p) == p.inUse < config.connectionLimit

\* pool.getConnection() by invocation i: a connection, or a place in the
\* queue; a pool that has been ended gives neither
PoolRequest(p, i) ==
    IF p.closed THEN p
    ELSE IF PoolHasRoom(p)
    THEN [p EXCEPT !.inUse = @ + 1]
    ELSE [p EXCEPT !.queue = Append(@, i)]

\* a connection comes back: the first waiting request takes it over
PoolRelease(p) ==
    IF p.queue # <<>>
    THEN [p EXCEPT !.queue = Tail(@)]
    ELSE [p EXCEPT !.inUse = @ - 1]

\* the invocations a returned connection is handed to
PoolWoken(p) == IF p.queue # <<>> THEN {Head(p.queue)} ELSE {}

\* The step of invocation i ends with its record cF.  slotLost tells that a
\* connection being set up for i failed.  A connection i gave back goes to
\* the queue's head; a request i made (pc "request") is served or queued,
\* or refused by a pool that has been ended.
Commit(i, cF0, slotLost) ==
    \E cF \in {cF0} :
    LET freed == slotLost \/ (call[i].conn /\ ~cF.conn)
        woken == IF freed THEN PoolWoken(pool) ELSE {}
        p1 == IF freed THEN PoolRelease(pool) ELSE pool
        asks == cF.pc = "request"
        p2 == IF asks THEN PoolRequest(p1, i) ELSE p1
        cN == IF asks
              THEN [cF EXCEPT !.pc = IF p1.closed THEN "refused"
                                     ELSE IF PoolHasRoom(p1) THEN "connecting"
                                     ELSE "queued",
                              !.waited = @ \/ (~p1.closed /\ ~PoolHasRoom(p1))]
              ELSE cF
    IN  /\ pool' = p2
        /\ call' = [k \in Calls |->
                       IF k = i THEN cN
                       ELSE IF k \in woken THEN [call[k] EXCEPT !.pc = "connecting"]
                       ELSE call[k]]

(***************************************************************************)
(* Actions: one per run of code between two suspension points.             *)
(***************************************************************************)
\* the statements each tool issues, in order
StatementsOf(tool) ==
    CASE tool = "list_tables" -> <<"SHOW TABLES">>
      [] tool = "get_table_schema" -> <<"DESCRIBE", "SHOW INDEXES", "SHOW CREATE TABLE">>
      [] tool = "execute_query" -> <<"QUERY">>
      [] OTHER -> <<>>

\* a dispatcher whose execute_query case reads no argument before the
\* handler has asked for its connection
DispatchAcquiresFirst(c0) ==
    LET Do(c) ==
        CASE c.tool = "onboarding" ->
                [HandlerStarts(c) EXCEPT !.pc = "await"]
          [] c.tool = "list_tables" ->
                [HandlerStarts(c) EXCEPT !.pc = "request", !.stmtNo = 1]
          [] c.tool = "get_table_schema" ->
                IF c.argsKind = "undefined"
                THEN [HandlerStarts(c) EXCEPT !.pc = "await",
                                              !.pendingError = ArgumentTypeError]
                ELSE [HandlerStarts(c) EXCEPT !.pc = "request", !.stmtNo = 1]
          [] c.tool = "execute_query" ->
                IF FALSE
                THEN Throw(c, ArgumentTypeError)
                ELSE LET queryType == detectQueryType(c.query)
                         c1 == setAttribute(c, "query.type", <<queryType>>)
                     IN  [HandlerStarts(c1) EXCEPT !.pc = "request", !.stmtNo = 1]
          [] OTHER -> Throw(c, UnknownToolMessage(c.tool))
    IN  Run(Do, c0)

\* the switch of the dispatcher, up to the first await of the chosen handler
Dispatch(c0) ==
    LET Do(c) ==
        CASE c.tool = "onboarding" ->
                [HandlerStarts(c) EXCEPT !.pc = "await"]
          [] c.tool = "list_tables" ->
                [HandlerStarts(c) EXCEPT !.pc = "request", !.stmtNo = 1]
          [] c.tool = "get_table_schema" ->
                IF c.argsKind = "undefined"
                THEN [HandlerStarts(c) EXCEPT !.pc = "await",
                                              !.pendingError = ArgumentTypeError]
                ELSE [HandlerStarts(c) EXCEPT !.pc = "request", !.stmtNo = 1]
          [] c.tool = "execute_query" ->
                IF c.argsKind # "ok"
                THEN Throw(c, ArgumentTypeError)
                ELSE LET queryType == detectQueryType(c.query)
                         c1 == setAttribute(c, "query.type", <<queryType>>)
                     IN  [HandlerStarts(c1) EXCEPT !.pc = "request", !.stmtNo = 1]
          [] OTHER -> Throw(c, UnknownToolMessage(c.tool))
    IN  Run(Do, c0)

\* the dispatcher counting a call only once its handler is chosen
CallToolBeginCountsKnownOnly(c0, name, kind, query, table) ==
    LET Do(c) ==
        LET cA == [c EXCEPT !.tool = name, !.argsKind = kind, !.query = query,
                            !.table = table]
            c1 == IF name \in RegisteredTools THEN recordToolCall(cA, name) ELSE cA
            c2 == startSpan(c1, name)
        IN  Dispatch(c2)
    IN  Run(Do, c0)

\* an invocation arrives: count it, open its span, dispatch
CallToolBegin(c0, name, kind, query, table) ==
    LET Do(c) ==
        LET cA == [c EXCEPT !.tool = name, !.argsKind = kind, !.query = query,
                            !.table = table]
            c1 == recordToolCall(cA, name)
            c2 == startSpan(c1, name)
        IN  Dispatch(c2)
    IN  Run(Do, c0)

ArgsOf(name) ==
    CASE name = "execute_query" ->
            {[kind |-> "undefined", query |-> <<>>, table |-> ""],
             [kind |-> "empty", query |-> <<>>, table |-> ""]}
            \cup {[kind |-> "ok", query |-> q, table |-> ""] : q \in QueryInputs}
      [] name = "get_table_schema" ->
            {[kind |-> "undefined", query |-> <<>>, table |-> ""],
             [kind |-> "ok", query |-> <<>>, table |-> "users"]}
      [] OTHER -> {[kind |-> "undefined", query |-> <<>>, table |-> ""]}

\* invocations are numbered in the order they arrive
CallTool(i) ==
    /\ proc.phase = "serving"
    /\ call[i].pc = "idle"
    /\ IF i = 1 THEN TRUE ELSE call[i - 1].pc # "idle"
    /\ \E name \in ToolNames : \E a \in ArgsOf(name) :
          Commit(i, CallToolBegin(call[i], name, a.kind, a.query, a.table), FALSE)
    /\ UNCHANGED <<config, proc, clsQuery, clsVerb>>

\* the promise of a handler that never waited for the database settles
HandlerSettles(i) ==
    /\ proc.phase # "exited"
    /\ call[i].pc = "await"
    /\ LET c == call[i] IN
          IF c.pendingError # <<>>
          THEN Commit(i, Throw(c, c.pendingError), FALSE)
          ELSE Commit(i, HandlerReturns(c, OnboardingGuide), FALSE)
    /\ UNCHANGED <<config, proc, clsQuery, clsVerb>>

\* the pool hands invocation i its connection: the statement is issued
Connected(i) ==
    /\ proc.phase # "exited"
    /\ call[i].pc = "connecting"
    /\ LET c == call[i] IN
          Commit(i, [c EXCEPT !.pc = "stmt", !.conn = TRUE, !.acquired = @ + 1,
                              !.stmts = Append(@, StatementsOf(c.tool)[c.stmtNo])],
                 FALSE)
    /\ UNCHANGED <<config, proc, clsQuery, clsVerb>>

\* a handler without the try/catch around its third statement
StatementThrowsNoRecovery(c0, message) ==
    LET Do(c) ==
        Throw([c EXCEPT !.failures =
                   Append(@, [stmtNo |-> c.stmtNo, message |-> message])], message)
    IN  Run(Do, c0)

\* what the handler does when a statement of it, or the acquisition for
\* it, has failed with the given message
StatementThrows(c0, message) ==
    LET Do(c) ==
        LET c1 == [c EXCEPT !.failures =
                       Append(@, [stmtNo |-> c.stmtNo, message |-> message])]
        IN  IF c.tool = "get_table_schema" /\ c.stmtNo = 3
            THEN GetTableSchemaFinish(c1, "")
            ELSE Throw(c1, message)
    IN  Run(Do, c0)

\* the connection for invocation i cannot be set up
ConnectFailed(i) ==
    /\ proc.phase # "exited"
    /\ call[i].pc = "connecting"
    /\ \E message \in ConnectErrors :
          Commit(i, StatementThrows(call[i], message), TRUE)
    /\ UNCHANGED <<config, proc, clsQuery, clsVerb>>

\* what the database can answer to the statement invocation c has issued
OutputsOf(c) ==
    CASE c.tool = "list_tables" -> ShowTablesOutputs
      [] c.tool = "get_table_schema" /\ c.stmtNo = 1 -> DescribeOutputs
      [] c.tool = "get_table_schema" /\ c.stmtNo = 2 -> ShowIndexesOutputs
      [] c.tool = "get_table_schema" /\ c.stmtNo = 3 -> ShowCreateOutputs
      [] OTHER -> QueryOutputs(c.query)

\* a get_table_schema that keeps the connection of its first statement
\* while it asks for the next
StatementAnswersKeepsConnection(c0, out) ==
    LET Do(c) ==
        CASE c.tool = "list_tables" -> ListTablesFinish(release(c), out.rows)
          [] c.tool = "get_table_schema" /\ c.stmtNo = 1 ->
                [c EXCEPT !.columns = out.rows, !.stmtNo = 2, !.pc = "request"]
          [] c.tool = "get_table_schema" /\ c.stmtNo = 2 ->
                [release(c) EXCEPT !.indexes = out.rows, !.stmtNo = 3, !.pc = "request"]
          [] c.tool = "get_table_schema" /\ c.stmtNo = 3 ->
                GetTableSchemaFinish(release(c), CreateTableInfo(out.rows))
          [] OTHER ->
                LET c1 == ExecuteQueryShape([c EXCEPT !.raw = out], out)
                    c2 == ExecuteQueryFinally(c1, FALSE)
                IN  ExecuteQueryReturns(c2)
    IN  Run(Do, c0)

\* the handler's code after a statement has answered
StatementAnswers(c0, out) ==
    LET Do(c) ==
        CASE c.tool = "list_tables" -> ListTablesFinish(release(c), out.rows)
          [] c.tool = "get_table_schema" /\ c.stmtNo = 1 ->
                [release(c) EXCEPT !.columns = out.rows, !.stmtNo = 2, !.pc = "request"]
          [] c.tool = "get_table_schema" /\ c.stmtNo = 2 ->
                [release(c) EXCEPT !.indexes = out.rows, !.stmtNo = 3, !.pc = "request"]
          [] c.tool = "get_table_schema" /\ c.stmtNo = 3 ->
                GetTableSchemaFinish(release(c), CreateTableInfo(out.rows))
          [] OTHER ->
                LET c1 == ExecuteQueryShape([c EXCEPT !.raw = out], out)
                    c2 == ExecuteQueryFinally(c1, FALSE)
                IN  ExecuteQueryReturns(c2)
    IN  Run(Do, c0)

\* the statement of invocation i answers
StatementOk(i) ==
    /\ proc.phase # "exited"
    /\ call[i].pc = "stmt"
    /\ \E out \in OutputsOf(call[i]) :
          Commit(i, StatementAnswers(call[i], out), FALSE)
    /\ UNCHANGED <<config, proc, clsQuery, clsVerb>>

\* the connection given back only after the dispatcher has caught the failure
StatementFailsReleasesLate(c0, message) ==
    LET Do(c) ==
        IF c.tool = "execute_query"
        THEN LET c1 == [c EXCEPT !.failures =
                           Append(@, [stmtNo |-> c.stmtNo, message |-> message])]
             IN  ExecuteQueryFinally(Throw(c1, message), TRUE)
        ELSE StatementThrows(release(c), message)
    IN  Run(Do, c0)

\* a list_tables handler that issues its statement again after a failure
StatementFailsRetries(c0, message) ==
    LET Do(c) ==
        IF c.tool = "execute_query"
        THEN LET c1 == [c EXCEPT !.failures =
                           Append(@, [stmtNo |-> c.stmtNo, message |-> message])]
             IN  Throw(ExecuteQueryFinally(c1, TRUE), message)
        ELSE IF c.tool = "list_tables" /\ Len(c.stmts) < 2
             THEN [release(c) EXCEPT !.pc = "request"]
             ELSE StatementThrows(release(c), message)
    IN  Run(Do, c0)

\* the handler's code after a statement has failed
StatementFails(c0, message) ==
    LET Do(c) ==
        IF c.tool = "execute_query"
        THEN LET c1 == [c EXCEPT !.failures =
                           Append(@, [stmtNo |-> c.stmtNo, message |-> message])]
             IN  Throw(ExecuteQueryFinally(c1, TRUE), message)
        ELSE StatementThrows(release(c), message)
    IN  Run(Do, c0)

\* the statement of invocation i fails
StatementFailed(i) ==
    /\ proc.phase # "exited"
    /\ call[i].pc = "stmt"
    /\ \E message \in StatementErrors :
          Commit(i, StatementFails(call[i], message), FALSE)
    /\ UNCHANGED <<config, proc, clsQuery, clsVerb>>

(***************************************************************************)
(* The process: main() and the signal handlers.                            *)
(***************************************************************************)
Signals == {"SIGINT", "SIGTERM"}

\* the process when main() waits for the connection of its probe
StartingProcess ==
    [phase |-> "probing", exitCode |-> 0,
     probeAcquired |-> 0, probeReleased |-> 0,
     handler |-> [sig \in Signals |-> [phase |-> "none", poolEnded |-> FALSE]],
     log |-> <<>>]

\* main() after the probe's connection has arrived: release it, connect
\* the server to its transport
MainProbed(p) ==
    [p EXCEPT !.phase = "serving",
              !.probeAcquired = @ + 1, !.probeReleased = @ + 1,
              !.log = @ \o <<<<"probeAcquired">>, <<"probeReleased">>, <<"connect">>>>]

\* process.exit(code)
Exit(p, code) ==
    [p EXCEPT !.phase = "exited", !.exitCode = code,
              !.log = Append(@, <<"exit">>)]

\* the probe's pool.getConnection() resolves
MainProbeOk ==
    /\ proc.phase = "probing"
    /\ proc' = MainProbed(proc)
    /\ pool' = PoolRelease(pool)
    /\ UNCHANGED <<config, call, clsQuery, clsVerb>>

\* a main() that goes on to serve after a failed probe
MainProbeFailedServes ==
    /\ proc.phase = "probing"
    /\ proc' = [proc EXCEPT !.phase = "serving",
                            !.log = @ \o <<<<"probeFailed">>, <<"connect">>>>]
    /\ pool' = PoolRelease(pool)
    /\ UNCHANGED <<config, call, clsQuery, clsVerb>>

\* the probe's pool.getConnection() rejects: process.exit(1)
MainProbeFailed ==
    /\ proc.phase = "probing"
    /\ proc' = Exit([proc EXCEPT !.log = Append(@, <<"probeFailed">>)], 1)
    /\ pool' = PoolRelease(pool)
    /\ UNCHANGED <<config, call, clsQuery, clsVerb>>

\* a signal arrives: its handler calls pool.end()
OnSignal(sig) ==
    /\ proc.phase # "exited"
    /\ proc.handler[sig].phase = "none"
    /\ proc' = [proc EXCEPT !.handler[sig].phase = "ending"]
    /\ pool' = [pool EXCEPT !.closed = TRUE]
    /\ UNCHANGED <<config, call, clsQuery, clsVerb>>

\* a handler that flushes the recorder without waiting for the pool
PoolEndedNotAwaited(sig) ==
    /\ proc.phase # "exited"
    /\ proc.handler[sig].phase = "ending"
    /\ proc' = [proc EXCEPT !.handler[sig].phase = "flushing"]
    /\ UNCHANGED <<config, pool, call, clsQuery, clsVerb>>

\* pool.end() resolves: the handler calls shutdownTelemetry()
PoolEnded(sig) ==
    /\ proc.phase # "exited"
    /\ proc.handler[sig].phase = "ending"
    /\ proc' = [proc EXCEPT !.handler[sig].phase = "flushing",
                            !.handler[sig].poolEnded = TRUE]
    /\ UNCHANGED <<config, pool, call, clsQuery, clsVerb>>

\* shutdownTelemetry() resolves: process.exit(0)
TelemetryShutDown(sig) ==
    /\ proc.phase # "exited"
    /\ proc.handler[sig].phase = "flushing"
    /\ proc' = Exit([proc EXCEPT !.handler[sig].phase = "done"], 0)
    /\ UNCHANGED <<config, pool, call, clsQuery, clsVerb>>

\* an ended pool rejects the request of invocation i
Refused(i) ==
    /\ proc.phase # "exited"
    /\ call[i].pc = "refused"
    /\ Commit(i, StatementThrows(call[i], PoolClosedError), FALSE)
    /\ UNCHANGED <<config, proc, clsQuery, clsVerb>>

(***************************************************************************)
(* The pipeline.                                                           *)
(***************************************************************************)
Init ==
    /\ config \in [connectionLimit : 1..MaxConnectionLimit,
                   telemetryEnabled : BOOLEAN,
                   database : {"shop"}]
    /\ pool = [inUse |-> 0, queue |-> <<>>, closed |-> FALSE]
    /\ call = [i \in Calls |-> IdleCall]
    /\ proc = MainProbed(StartingProcess)
    /\ clsQuery = <<>>
    /\ clsVerb = ""

Next ==
    \E i \in Calls :
        \/ CallTool(i)
        \/ HandlerSettles(i)
        \/ Connected(i)
        \/ ConnectFailed(i)
        \/ StatementOk(i)
        \/ StatementFailed(i)

Spec == Init /\ [][Next]_vars

\* Every promise the runtime holds settles: a handler's own promise, an
\* acquisition the pool has started to serve, a statement the driver runs.
Fairness ==
    \A i \in Calls :
        /\ WF_vars(HandlerSettles(i))
        /\ WF_vars(Connected(i) \/ ConnectFailed(i))
        /\ WF_vars(StatementOk(i) \/ StatementFailed(i))

FairSpec == Init /\ [][Next]_vars /\ Fairness

(***************************************************************************)
(* The pipeline within the life of the process: from the start of main()   *)
(* to process.exit.                                                        *)
(***************************************************************************)
LifecycleInit ==
    \* one connection, so that invocations wait in the queue of the pool
    /\ config = [connectionLimit |-> 1, telemetryEnabled |-> TRUE, database |-> "shop"]
    /\ pool = [inUse |-> 1, queue |-> <<>>, closed |-> FALSE]
    /\ call = [i \in Calls |-> IdleCall]
    /\ proc = StartingProcess
    /\ clsQuery = <<>>
    /\ clsVerb = ""

LifecycleNext ==
    \/ MainProbeOk
    \/ MainProbeFailed
    \/ \E sig \in Signals :
          \/ OnSignal(sig)
          \/ PoolEnded(sig)
          \/ TelemetryShutDown(sig)
    \/ \E i \in Calls :
          \/ CallTool(i)
          \/ HandlerSettles(i)
          \/ Connected(i)
          \/ ConnectFailed(i)
          \/ StatementOk(i)
          \/ StatementFailed(i)
          \/ Refused(i)

LifecycleSpec == LifecycleInit /\ [][LifecycleNext]_vars

\* The promises a signal handler awaits settle, as do those of main().
LifecycleFairness ==
    /\ WF_vars(MainProbeOk \/ MainProbeFailed)
    /\ \A sig \in Signals :
          /\ WF_vars(PoolEnded(sig))
          /\ WF_vars(TelemetryShutDown(sig))

FairLifecycleSpec == LifecycleInit /\ [][LifecycleNext]_vars /\ LifecycleFairness

(***************************************************************************)
(* The classifier on its own: a query text is drawn, detectQueryType is    *)
(* applied to it.                                                          *)
(***************************************************************************)
Keywords == {KwSelect, KwInsert, KwUpdate, KwDelete, KwCreate, KwAlter, KwDrop,
             KwTruncate, KwReplace, KwShow, KwDescribe, KwDesc}
OtherWords == {<<>>, <<"W","A","T">>, <<"S","E","T">>, <<"D","E","S">>,
               <<"E","X","P","L","A","I","N">>}

ToLowerChar(ch) ==
    IF \E k \in 1..Len(UpperChars) : UpperChars[k] = ch
    THEN LowerChars[CHOOSE k \in 1..Len(UpperChars) : UpperChars[k] = ch]
    ELSE ch
ToLowerCase(s) == [k \in 1..Len(s) |-> ToLowerChar(s[k])]
Capitalized(s) == [k \in 1..Len(s) |-> IF k = 1 THEN s[k] ELSE ToLowerChar(s[k])]

\* runs of whitespace of at most MaxPad characters
Pads == UNION {[1..n -> WhiteSpace] : n \in 0..MaxPad}
\* what follows the first word
Tails == {<<>>, <<" ", "1">>, <<"X">>, <<"(", "1", ")">>, <<";">>}
\* every keyword and some other words, in three spellings
Words == UNION {{w, ToLowerCase(w), Capitalized(w)} : w \in Keywords \cup OtherWords}

QueryTexts == {l \o w \o t \o r : l \in Pads, w \in Words, t \in Tails, r \in Pads}

ClassifierInit ==
    /\ config = [connectionLimit |-> 1, telemetryEnabled |-> FALSE, database |-> "shop"]
    /\ pool = [inUse |-> 0, queue |-> <<>>, closed |-> FALSE]
    /\ call = [i \in Calls |-> IdleCall]
    /\ proc = MainProbed(StartingProcess)
    /\ clsQuery \in QueryTexts
    /\ clsVerb = ""

Classify ==
    /\ clsVerb = ""
    /\ clsVerb' = detectQueryType(clsQuery)
    /\ UNCHANGED <<config, pool, call, proc, clsQuery>>

ClassifierSpec == ClassifierInit /\ [][Classify]_vars

(***************************************************************************)
(* Properties of the dispatcher.                                           *)
(***************************************************************************)
Responded(c) == c.pc = "responded"
IsErrorResponse(c) == "isError" \in DOMAIN c.response /\ c.response.isError
ErrorEnvelope(message) ==
    [content |-> <<[type |-> "text", text |-> JsonStringify([error |-> message])]>>,
     isError |-> TRUE]
SuccessEnvelope(result) ==
    [content |-> <<[type |-> "text", text |-> JsonStringify(result)]>>]

\* the durations the dispatcher itself has recorded, under the tool's name
\* (a handler records the duration of its statements under another label)
DispatcherDurations(c) ==
    SelectSeq(c.durations, LAMBDA d : d.label = <<c.tool>>)

\* C1: for every answered invocation the dispatcher has recorded exactly
\* one duration and, when a span was opened for it, that span has been
\* ended exactly once.
C1_OneSpanEndOneDuration ==
    \A i \in Calls :
        Responded(call[i]) =>
            /\ Len(DispatcherDurations(call[i])) = 1
            /\ call[i].span # "none" => call[i].spanEnds = 1

\* C2: an execute_query invocation never releases more often than it has
\* acquired, holds a connection exactly between the two, and has released
\* what it acquired once it is answered; when no invocation is in flight
\* no connection of the pool is checked out.
C2_ReleasedExactlyOnce ==
    /\ \A i \in Calls :
          call[i].tool = "execute_query" =>
              /\ call[i].acquired <= 1
              /\ call[i].released <= call[i].acquired
              /\ call[i].conn <=> (call[i].acquired = call[i].released + 1)
              /\ Responded(call[i]) =>
                    /\ ~call[i].conn
                    /\ call[i].released = call[i].acquired
    /\ (\A i \in Calls : call[i].pc \in {"idle", "responded"}) => pool.inUse = 0

\* an execute_query invocation whose statement failed has been answered,
\* after one acquisition and one release
C2_Witness ==
    \E i \in Calls :
        /\ call[i].tool = "execute_query"
        /\ Responded(call[i]) /\ IsErrorResponse(call[i])
        /\ call[i].failures # <<>>
        /\ call[i].acquired = 1 /\ call[i].released = 1

\* C3: no exception leaves the dispatcher; every exception that reached its
\* try block was caught, at most one per invocation, and an answered
\* invocation carries the error envelope {error: message} of that exception
\* exactly when there was one.
C3_FailuresBecomeErrorEnvelopes ==
    \A i \in Calls :
        /\ call[i].pc # "rejected"
        /\ call[i].catches = Len(call[i].thrown)
        /\ Len(call[i].thrown) <= 1
        /\ Responded(call[i]) =>
              IF call[i].thrown # <<>>
              THEN call[i].response = ErrorEnvelope(call[i].thrown[1])
              ELSE ~IsErrorResponse(call[i])

\* a handler's failed statement has been answered with the error envelope
C3_Witness ==
    \E i \in Calls :
        /\ Responded(call[i])
        /\ call[i].handlerRuns = 1
        /\ call[i].failures # <<>>
        /\ call[i].thrown = <<call[i].failures[1].message>>
        /\ call[i].response = ErrorEnvelope(call[i].failures[1].message)

\* C4: an invocation of an unregistered name is answered in the step it
\* arrives in, with the error "Unknown tool: <name>", without a handler, a
\* statement or a connection, and its call count is recorded once, before
\* the failure is caught.
C4_UnknownTool ==
    \A i \in Calls :
        call[i].tool \in UnknownTools =>
            /\ Responded(call[i])
            /\ call[i].handlerRuns = 0
            /\ call[i].acquired = 0 /\ ~call[i].waited /\ call[i].stmts = <<>>
            /\ call[i].response = ErrorEnvelope(UnknownToolMessage(call[i].tool))
            /\ call[i].toolCalls = <<call[i].tool>>
            /\ call[i].log[1] = "toolCall"
            /\ \E k \in 2..Len(call[i].log) : call[i].log[k] = "caught"

\* an unregistered name has been invoked and answered
C4_Witness ==
    \E i \in Calls :
        /\ call[i].tool \in UnknownTools
        /\ Responded(call[i])
        /\ call[i].toolCalls = <<call[i].tool>>

\* C5: every invocation that has arrived is eventually answered; an
\* answered invocation keeps its one response; an acquisition that found the
\* pool full stays queued until a connection is handed to it.
C5_EveryInvocationAnswered ==
    /\ \A i \in Calls : (call[i].pc # "idle") ~> Responded(call[i])
    /\ [][\A i \in Calls :
            /\ Responded(call[i]) => call'[i] = call[i]
            /\ call[i].pc = "queued" => call'[i].pc \in {"queued", "connecting"}]_vars

\* an invocation that waited in the pool's queue has been answered
C5_Witness ==
    \E i \in Calls :
        /\ Responded(call[i])
        /\ call[i].waited
        /\ call[i].acquired >= 1

\* the events of the dispatcher the claim orders, for an invocation that
\* ended as given
StagesOf(c, failed) ==
    <<"toolCall">>
    \o (IF c.span # "none" THEN <<"spanOpen">> ELSE <<>>)
    \o (IF c.handlerRuns > 0 THEN <<"handlerStart">> ELSE <<>>)
    \o (IF failed THEN <<"caught", "durRec", "errRec">> ELSE <<"handlerReturn", "durRec">>)
    \o (IF c.span # "none" THEN <<"spanEnd">> ELSE <<>>)
    \o <<"respond">>

\* C6: the events of an answered invocation are, in this order and once
\* each: call counted, span opened, handler started, handler returned or
\* failure caught, duration (and error) recorded, span ended, response.
C6_StagesInOrder ==
    \A i \in Calls :
        Responded(call[i]) =>
            call[i].log = StagesOf(call[i], IsErrorResponse(call[i]))

\* C7: whenever the dispatcher records a duration or an error for an
\* invocation, that invocation holds no connection of the pool.
C7_NoConnectionWhenRecording ==
    \A i \in Calls :
        /\ \A k \in 1..Len(call[i].durations) :
              call[i].durations[k].label = <<call[i].tool>> =>
                  ~call[i].durations[k].holding
        /\ \A k \in 1..Len(call[i].errors) : ~call[i].errors[k].holding

\* the dispatcher has recorded the error of an execute_query invocation that
\* had acquired a connection
C7_Witness ==
    \E i \in Calls :
        /\ call[i].tool = "execute_query"
        /\ call[i].acquired = 1
        /\ Len(call[i].errors) = 1
        /\ Len(DispatcherDurations(call[i])) >= 1

(***************************************************************************)
(* Properties of the classifier.                                           *)
(***************************************************************************)
KeywordVerbs ==
    {<<KwSelect, "SELECT">>, <<KwInsert, "INSERT">>, <<KwUpdate, "UPDATE">>,
     <<KwDelete, "DELETE">>, <<KwCreate, "CREATE">>, <<KwAlter, "ALTER">>,
     <<KwDrop, "DROP">>, <<KwTruncate, "TRUNCATE">>, <<KwReplace, "REPLACE">>,
     <<KwShow, "SHOW">>, <<KwDescribe, "DESCRIBE">>, <<KwDesc, "DESCRIBE">>}

\* a character of a word: a letter, a digit or an underscore
WordChar(ch) ==
    \/ \E k \in 1..Len(UpperChars) : UpperChars[k] = ch
    \/ \E k \in 1..Len(LowerChars) : LowerChars[k] = ch
    \/ ch \in {"0", "1", "2", "3", "4", "5", "6", "7", "8", "9", "_"}

\* the leading token of a text: its longest prefix of word characters
LeadingToken(s) ==
    LET n == CHOOSE m \in 0..Len(s) :
                 /\ \A k \in 1..m : WordChar(s[k])
                 /\ m = Len(s) \/ ~WordChar(s[m + 1])
    IN  SubSeq(s, 1, n)

\* the verb of a token that is a keyword, OTHER for any other token
VerbOfToken(token) ==
    IF \E kv \in KeywordVerbs : kv[1] = token
    THEN (CHOOSE kv \in KeywordVerbs : kv[1] = token)[2]
    ELSE "OTHER"

\* C8 as stated: the classifier returns the verb of the keyword that is the
\* leading token of the trimmed, case-folded text, and OTHER when the
\* leading token is no keyword.
C8_VerbOfLeadingToken ==
    clsVerb # "" =>
        clsVerb = VerbOfToken(LeadingToken(ToUpperCase(Trim(clsQuery))))

\* C8 amended: the classifier returns the verb of the keywords the trimmed,
\* case-folded text begins with, whether or not the keyword ends the
\* leading token, and OTHER when the text begins with no keyword.
C8_VerbOfLeadingKeyword ==
    clsVerb # "" =>
        LET text == ToUpperCase(Trim(clsQuery))
            found == {kv \in KeywordVerbs : StartsWith(text, kv[1])}
        IN  IF found = {} THEN clsVerb = "OTHER"
            ELSE \A kv \in found : clsVerb = kv[2]

\* a padded, lower-case text whose leading token only begins with a keyword
\* has been classified by that keyword
C8_Witness ==
    /\ clsVerb = "DESCRIBE"
    /\ Head(clsQuery) \in WhiteSpace
    /\ LeadingToken(Trim(clsQuery)) = <<"d", "e", "s", "c", "X">>

(***************************************************************************)
(* Properties of the handlers.                                             *)
(***************************************************************************)
\* C9: once the statement of an execute_query invocation has answered, the
\* result is of exactly one shape: for a row set of N rows rowCount = N,
\* the rows as the driver gave them and each field packet reduced to name
\* and type; for a receipt affectedRows, insertId and warningCount and
\* nothing else.  A success response carries that result.
C9_OneResultShape ==
    \A i \in Calls :
        (call[i].tool = "execute_query" /\ call[i].raw # NoResult) =>
            LET raw == call[i].raw
                result == call[i].result
            IN  /\ raw.kind = "rows" =>
                      /\ DOMAIN result = {"rowCount", "rows", "fields"}
                      /\ result.rowCount = Len(raw.rows)
                      /\ result.rows = raw.rows
                      /\ Len(result.fields) = Len(raw.fields)
                      /\ \A k \in 1..Len(raw.fields) :
                            result.fields[k] = [name |-> raw.fields[k].name,
                                                type |-> raw.fields[k].type]
                /\ raw.kind = "receipt" =>
                      /\ DOMAIN result = {"affectedRows", "insertId", "warningCount"}
                      /\ result.affectedRows = raw.affectedRows
                      /\ result.insertId = raw.insertId
                      /\ result.warningCount = raw.warningStatus
                /\ (Responded(call[i]) /\ ~IsErrorResponse(call[i])) =>
                      call[i].response = SuccessEnvelope(result)

\* one execute_query invocation has answered an empty row set, another a
\* receipt
C9_Witness ==
    \E i, j \in Calls :
        /\ call[i].tool = "execute_query" /\ call[j].tool = "execute_query"
        /\ Responded(call[i]) /\ ~IsErrorResponse(call[i])
        /\ Responded(call[j]) /\ ~IsErrorResponse(call[j])
        /\ "rowCount" \in DOMAIN call[i].result
        /\ call[i].result.rowCount = 0
        /\ "affectedRows" \in DOMAIN call[j].result
        /\ call[j].result.affectedRows = MaxRows

\* the statements of a get_table_schema invocation that failed
FailedStatements(c) == {c.failures[k].stmtNo : k \in 1..Len(c.failures)}

\* C10: in get_table_schema a failure of the third statement leaves the
\* call a success, with the columns and indexes obtained and an empty
\* createTableStatement; a failure of the first or second statement is
\* answered with the error envelope of that failure, and no later statement
\* is issued.
C10_ShowCreateIsBestEffort ==
    \A i \in Calls :
        call[i].tool = "get_table_schema" =>
            LET c == call[i] IN
            /\ (3 \in FailedStatements(c) /\ Responded(c)) =>
                  /\ c.result = [database |-> config.database, table |-> c.table,
                                 columns |-> c.columns, indexes |-> c.indexes,
                                 createTableStatement |-> ""]
                  /\ Len(c.columns) > 0
                  /\ Serializable(c.result) => c.response = SuccessEnvelope(c.result)
            /\ \A n \in {1, 2} :
                  n \in FailedStatements(c) =>
                      /\ Responded(c)
                      /\ c.response = ErrorEnvelope(c.failures[1].message)
                      /\ c.stmtNo = n
                      /\ Len(c.stmts) <= n
                      /\ c.result = NoResult

\* a get_table_schema invocation whose third statement failed has been
\* answered with a success
C10_Witness ==
    \E i \in Calls :
        /\ call[i].tool = "get_table_schema"
        /\ Responded(call[i])
        /\ 3 \in FailedStatements(call[i])
        /\ Len(call[i].stmts) = 3
        /\ ~IsErrorResponse(call[i])

(***************************************************************************)
(* Properties of the metrics.                                              *)
(***************************************************************************)
\* the data whose size the handler of c measures
PayloadOf(c) ==
    IF c.tool = "execute_query" /\ c.raw # NoResult /\ c.raw.kind = "rows"
    THEN [rows |-> c.raw.rows]
    ELSE c.result

\* the handler of c has measured a payload that cannot be serialised
PayloadFailed(c) == c.bytesRec # <<>> /\ ~Serializable(PayloadOf(c))

\* C11 as stated: when computing the payload size fails, 0 bytes are
\* recorded and the invocation, whose handler obtained its data, is
\* answered with a success.
C11_PayloadFailureStillSucceeds ==
    \A i \in Calls :
        (PayloadFailed(call[i]) /\ Responded(call[i])) =>
            /\ call[i].bytesRec[1].bytes = 0
            /\ ~IsErrorResponse(call[i])

\* C11 amended: when computing the payload size fails, 0 bytes are recorded
\* and the handler still returns its data, so the only exception of the
\* invocation is the dispatcher's own serialisation of the result; an
\* invocation whose handler returned data is answered with a success
\* exactly when the dispatcher can serialise that data.
C11_PayloadFailureNeverFailsHandler ==
    \A i \in Calls :
        LET c == call[i] IN
        /\ PayloadFailed(c) =>
              /\ c.bytesRec[1].bytes = 0
              /\ c.result # NoResult
              /\ Responded(c) =>
                    /\ c.thrown = <<SerializeTypeError>>
                    /\ c.response = ErrorEnvelope(SerializeTypeError)
        /\ (Responded(c) /\ c.result # NoResult) =>
              /\ IsErrorResponse(c) <=> ~Serializable(c.result)
              /\ ~IsErrorResponse(c) => c.response = SuccessEnvelope(c.result)

\* an invocation whose payload could not be measured has recorded 0 bytes,
\* its handler has returned, and it has been answered
C11_Witness ==
    \E i \in Calls :
        /\ PayloadFailed(call[i])
        /\ call[i].bytesRec[1].bytes = 0
        /\ call[i].result # NoResult
        /\ Responded(call[i])
        /\ IsErrorResponse(call[i])

(***************************************************************************)
(* Properties of the statements.                                           *)
(***************************************************************************)
\* the statements c has issued are the first ones of its tool, each once
IssuedInOrder(c) ==
    /\ Len(c.stmts) <= Len(StatementsOf(c.tool))
    /\ \A k \in 1..Len(c.stmts) : c.stmts[k] = StatementsOf(c.tool)[k]

\* C12 as stated: each statement of an invocation is issued at most once,
\* and every failed statement is answered with the error envelope that
\* carries the driver's message.
C12_EveryFailureSurfaced ==
    \A i \in Calls :
        LET c == call[i] IN
        /\ IssuedInOrder(c)
        /\ \A k \in 1..Len(c.failures) :
              Responded(c) => c.response = ErrorEnvelope(c.failures[k].message)

\* C12 amended: each statement of an invocation is issued at most once
\* (one for list_tables and execute_query, at most three for
\* get_table_schema), at most one statement of it fails, and a failed
\* statement other than the third of get_table_schema is answered with the
\* error envelope that carries the driver's message, after which nothing
\* more is issued.
C12_NoRetryFailureSurfaced ==
    \A i \in Calls :
        LET c == call[i] IN
        /\ IssuedInOrder(c)
        /\ Len(c.failures) <= 1
        /\ \A k \in 1..Len(c.failures) :
              (c.tool = "get_table_schema" /\ c.failures[k].stmtNo = 3)
              \/ /\ Responded(c)
                 /\ c.response = ErrorEnvelope(c.failures[k].message)
                 /\ Len(c.stmts) <= c.failures[k].stmtNo

\* a get_table_schema invocation whose second statement failed has been
\* answered with that failure, two statements issued
C12_Witness ==
    \E i \in Calls :
        /\ call[i].tool = "get_table_schema"
        /\ call[i].stmts = <<"DESCRIBE", "SHOW INDEXES">>
        /\ Len(call[i].failures) = 1
        /\ call[i].failures[1].stmtNo = 2
        /\ call[i].failures[1].message \in StatementErrors
        /\ call[i].response = ErrorEnvelope(call[i].failures[1].message)

\* the tools whose handlers talk to the database
DatabaseTools == {"list_tables", "get_table_schema", "execute_query"}

\* C13 as stated: every answered invocation has emitted the rows counter
\* once and the bytes counter once.
C13_RowsAndBytesOnEveryPath ==
    \A i \in Calls :
        Responded(call[i]) =>
            /\ Len(call[i].rowsRec) = 1
            /\ Len(call[i].bytesRec) = 1

\* C13 amended: an invocation emits the rows counter and the bytes counter
\* at most once each, both or neither; an answered invocation has emitted
\* them exactly when the handler of a database tool returned its data, and
\* not for onboarding, an unknown tool or a failure before the data.
C13_RowsAndBytesOncePerResult ==
    \A i \in Calls :
        LET c == call[i] IN
        /\ Len(c.rowsRec) <= 1
        /\ Len(c.bytesRec) = Len(c.rowsRec)
        /\ Responded(c) =>
              (Len(c.rowsRec) = 1 <=> (c.tool \in DatabaseTools /\ c.result # NoResult))

\* an answered onboarding invocation that emitted neither counter and an
\* answered list_tables invocation that emitted both
C13_Witness ==
    \E i, j \in Calls :
        /\ call[i].tool = "onboarding" /\ Responded(call[i])
        /\ ~IsErrorResponse(call[i])
        /\ call[i].rowsRec = <<>> /\ call[i].bytesRec = <<>>
        /\ call[j].tool = "list_tables" /\ Responded(call[j])
        /\ Len(call[j].rowsRec) = 1 /\ Len(call[j].bytesRec) = 1

\* C14: an invocation records the error event at most once; an answered
\* invocation has recorded it exactly when its response has isError = true,
\* with its own tool name and the message the response carries, and an
\* invocation that is not answered has not recorded it.
C14_ErrorEventIffErrorResponse ==
    \A i \in Calls :
        LET c == call[i] IN
        /\ Len(c.errors) <= 1
        /\ Len(c.errors) = 1 <=> (Responded(c) /\ IsErrorResponse(c))
        /\ Len(c.errors) = 1 =>
              /\ c.errors[1].tool = c.tool
              /\ c.response = ErrorEnvelope(c.errors[1].message)

\* an invocation whose result could not be serialised after its handler
\* had returned, and another answered with a success
C14_Witness ==
    \E i, j \in Calls :
        /\ Responded(call[i]) /\ IsErrorResponse(call[i])
        /\ call[i].result # NoResult
        /\ Len(call[i].errors) = 1
        /\ call[i].errors[1].message = SerializeTypeError
        /\ Responded(call[j]) /\ ~IsErrorResponse(call[j])
        /\ call[j].errors = <<>>

\* C15: the rows metric of a database tool whose handler returned is the
\* size of what it returns, under the right verb: list_tables records the
\* number of table names with verb SHOW; execute_query records rowCount for
\* a row set and affectedRows for a receipt, with the verb the classifier
\* gives the query text (SELECT for "SELECT 1", DELETE for
\* " delete from x").
C15_RowsMetricMatchesResult ==
    \A i \in Calls :
        LET c == call[i] IN
        (c.result # NoResult /\ c.tool \in {"list_tables", "execute_query"}) =>
            /\ Len(c.rowsRec) = 1
            /\ c.rowsRec[1].tool = c.tool
            /\ c.tool = "list_tables" =>
                  /\ c.rowsRec[1].n = Len(c.result.tables)
                  /\ c.rowsRec[1].verb = "SHOW"
            /\ c.tool = "execute_query" =>
                  /\ c.rowsRec[1].verb = detectQueryType(c.query)
                  /\ c.query = SelectOne => c.rowsRec[1].verb = "SELECT"
                  /\ c.query = DeleteFromX => c.rowsRec[1].verb = "DELETE"
                  /\ "rowCount" \in DOMAIN c.result =>
                        c.rowsRec[1].n = c.result.rowCount
                  /\ "affectedRows" \in DOMAIN c.result =>
                        c.rowsRec[1].n = c.result.affectedRows

\* a list_tables invocation answered with MaxRows table names and an
\* execute_query invocation answered with a receipt of MaxRows affected rows
\* under the verb DELETE
C15_Witness ==
    \E i, j \in Calls :
        /\ call[i].tool = "list_tables"
        /\ Responded(call[i]) /\ ~IsErrorResponse(call[i])
        /\ Len(call[i].result.tables) = MaxRows
        /\ call[i].rowsRec = <<[n |-> MaxRows, verb |-> "SHOW", tool |-> "list_tables"]>>
        /\ call[j].tool = "execute_query"
        /\ Responded(call[j]) /\ ~IsErrorResponse(call[j])
        /\ call[j].rowsRec = <<[n |-> MaxRows, verb |-> "DELETE", tool |-> "execute_query"]>>

(***************************************************************************)
(* Properties of the arguments.                                            *)
(***************************************************************************)
\* C16: an execute_query or get_table_schema invocation without its
\* argument never asks the pool for a connection and issues no statement;
\* it is answered with the error envelope of the failure, and for
\* execute_query that happens before its handler is called.
C16_MissingArgumentIsAnError ==
    \A i \in Calls :
        LET c == call[i] IN
        (c.tool \in {"execute_query", "get_table_schema"} /\ c.argsKind # "ok") =>
            /\ c.acquired = 0 /\ c.released = 0 /\ ~c.conn /\ ~c.waited
            /\ c.stmts = <<>>
            /\ c.pc \in {"await", "responded"}
            /\ Responded(c) =>
                  /\ c.response = ErrorEnvelope(ArgumentTypeError)
                  /\ c.errors = <<[tool |-> c.tool, message |-> ArgumentTypeError,
                                   holding |-> FALSE]>>
            /\ c.tool = "execute_query" =>
                  /\ Responded(c)
                  /\ c.handlerRuns = 0

\* an execute_query invocation with an empty argument object and a
\* get_table_schema invocation without arguments have been answered
C16_Witness ==
    \E i, j \in Calls :
        /\ call[i].tool = "execute_query" /\ call[i].argsKind = "empty"
        /\ Responded(call[i]) /\ IsErrorResponse(call[i])
        /\ call[j].tool = "get_table_schema" /\ call[j].argsKind = "undefined"
        /\ Responded(call[j]) /\ IsErrorResponse(call[j])

(***************************************************************************)
(* Properties of the process.                                              *)
(***************************************************************************)
\* the events of main() recorded so far contain the given one
Logged(event) == \E k \in 1..Len(proc.log) : proc.log[k] = <<event>>

\* C17: the probe of main() acquires once and releases once, and the
\* server is connected to its transport only after both, so an invocation
\* is handled only after the probe succeeded; when the probe's acquisition
\* fails the process has exited with a non-zero status, was never connected
\* to its transport and has handled no invocation.
C17_ProbeBeforeServing ==
    /\ proc.probeAcquired <= 1
    /\ proc.probeReleased <= proc.probeAcquired
    /\ Logged("connect") =>
          /\ proc.probeAcquired = 1 /\ proc.probeReleased = 1
          /\ SubSeq(proc.log, 1, 3) =
                <<<<"probeAcquired">>, <<"probeReleased">>, <<"connect">>>>
    /\ (\E i \in Calls : call[i].pc # "idle") => Logged("connect")
    /\ Logged("probeFailed") =>
          /\ proc.phase = "exited"
          /\ proc.exitCode # 0
          /\ ~Logged("connect")
          /\ proc.probeAcquired = 0
          /\ \A i \in Calls : call[i].pc = "idle"

\* an invocation has been answered with a success by a process whose probe
\* acquired and released one connection
C17_Witness ==
    /\ proc.probeAcquired = 1 /\ proc.probeReleased = 1
    /\ \E i \in Calls : Responded(call[i]) /\ ~IsErrorResponse(call[i])

\* some signal handler has started
Signalled == \E sig \in Signals : proc.handler[sig].phase # "none"

C19_SpanOutcomeAgrees ==
    \A i \in Calls :
        LET c == call[i] IN
        c.span # "none" =>
            /\ c.lateAttrs = 0
            /\ Responded(c) =>
                  /\ c.span = "ended"
                  /\ c.spanEnds = 1
                  /\ c.attrs["success"] = <<~IsErrorResponse(c)>>
                  /\ IsErrorResponse(c) => c.response = ErrorEnvelope(c.attrs["error"])
                  /\ ~IsErrorResponse(c) => c.attrs["error"] = <<>>

(***************************************************************************)
(* Properties of the pool.                                                 *)
(***************************************************************************)
\* the invocations that occupy a connection of the pool: one is being set
\* up for them, or they run a statement on it
Occupying == {i \in Calls : call[i].pc \in {"connecting", "stmt"}}

\* C20: an invocation holds at most one connection, and none while it asks
\* or waits for one; the connections checked out are those of the
\* invocations that occupy one, never more than the limit; the queue holds exactly the waiting invocations, and
\* whenever one waits the pool is full with invocations that do not wait,
\* so every wait ends when one of them gives its connection back.
C20_OneConnectionNoDeadlock ==
    /\ \A i \in Calls :
          LET c == call[i] IN
          /\ c.acquired - c.released \in {0, 1}
          /\ c.conn <=> (c.acquired = c.released + 1)
          /\ c.conn => c.pc = "stmt"
          /\ c.pc \in {"request", "queued", "connecting", "refused"} => ~c.conn
          /\ c.pc = "queued" <=> (\E k \in 1..Len(pool.queue) : pool.queue[k] = i)
    /\ \A k, l \in 1..Len(pool.queue) : pool.queue[k] = pool.queue[l] => k = l
    /\ pool.inUse = Cardinality(Occupying)
    /\ pool.inUse <= config.connectionLimit
    /\ pool.queue # <<>> =>
          /\ pool.inUse = config.connectionLimit
          /\ Occupying # {}

\* one invocation waits in the queue of a full pool while a
\* get_table_schema invocation runs its second statement on the second
\* connection it was given
C20_Witness ==
    \E i, j \in Calls :
        /\ call[i].tool = "get_table_schema"
        /\ call[i].pc = "stmt" /\ call[i].stmtNo = 2 /\ call[i].acquired = 2
        /\ call[j].pc = "queued"
        /\ pool.inUse = config.connectionLimit

=============================================================================
